---- MODULE Spec2Model ----
(***************************************************************************)
(* The shared HTTP access layer of flow_researcher                         *)
(* (src/src/flow_researcher/tools/sec_http_client.py): RateLimiter,        *)
(* SimpleCache, SECHttpClient and the default-client registry.             *)
(*                                                                         *)
(* Time is time.time() measured in ticks; one second is TicksPerSecond     *)
(* ticks.                                                                  *)
(***************************************************************************)
EXTENDS Integers, Sequences, FiniteSets, TLC

\* ---------------------------------------------------------------- bounds
TicksPerSecond == 2
MaxTime == 3
MaxCalls == 4
MaxCeiling == 2
NumThreads == 2
MaxTtl == 1
MaxFetches == 2
MaxTransient == 4
MaxOversleep == 1
MaxConstructed == 2

Threads == 1..NumThreads

VARIABLES
    clock,          \* time.time()
    max_rps,        \* RateLimiter.max_rps
    request_times,  \* RateLimiter.request_times (deque, oldest first)
    pc,             \* per thread: position inside wait_if_needed
    now,            \* per thread: the local variable now
    wake_at,        \* per thread: the earliest time time.sleep may return
    calls,          \* history: number of wait_if_needed calls started
    admitted,       \* history: every timestamp recorded by line 51, in order
    completed,      \* history: the clock at which each line 51 ran, in order
    files,          \* the cache directory: path -> content of the file
    written,        \* history: per cache key, the most recent SimpleCache.set
    cache_ttl,      \* SECHttpClient.cache_ttl
    enable_cache,   \* SECHttpClient.enable_cache
    cache_op,       \* per thread: its position and locals inside SimpleCache.get/set
    dest,           \* the download destinations: path -> content of the file
    default_client, \* the module global _default_client
    constructed,    \* history: the clients get_default_client has constructed
    reg_pc,         \* per thread: position inside get_default_client
    reg_new,        \* per thread: the client it constructed at line 267
    flow,           \* one FinancialSnapshotFlow run: its state and its dispatch
    last            \* history: the most recent operation and what it returned

limiterVars == <<max_rps, request_times, pc, now, wake_at, calls, admitted,
                 completed>>
cacheVars == <<files, written, cache_ttl, enable_cache, cache_op>>
registryVars == <<default_client, constructed, reg_pc, reg_new>>
vars == <<clock, limiterVars, cacheVars, dest, registryVars, flow, last>>

\* ----------------------------------------------------------- RateLimiter

\* line 37 / 47: the loop test  request_times and now - request_times[0] > 1.0
Stale(q, t) == q # <<>> /\ t - Head(q) > TicksPerSecond

\* a limit test that ignores the ceiling
AtLimit_NoCeiling(q) == Len(q) >= 0

\* line 41: len(self.request_times) >= self.max_rps
AtLimit(q) == Len(q) >= max_rps

\* line 42: sleep_time = 1.0 - (now - self.request_times[0])
SleepTime(q, t) == TicksPerSecond - (t - Head(q))

\* a limiter that never sleeps
MustSleep_Never(s) == FALSE

\* line 43: if sleep_time > 0
MustSleep(s) == s > 0

SetPc(t, p) == pc' = [pc EXCEPT ![t] = p]

\* line 34: now = time.time()
Call(t) ==
    /\ pc[t] = "idle"
    /\ calls < MaxCalls
    /\ calls' = calls + 1
    /\ now' = [now EXCEPT ![t] = clock]
    /\ SetPc(t, "purge")
    /\ UNCHANGED <<flow, clock, max_rps, request_times, wake_at, admitted, completed, cacheVars, last>>
    /\ UNCHANGED <<dest, registryVars>>

\* lines 37-38: one iteration of the first purge loop
PurgeStep(t) ==
    /\ pc[t] = "purge"
    /\ IF Stale(request_times, now[t])
         THEN request_times' = Tail(request_times) /\ UNCHANGED pc
         ELSE SetPc(t, "check") /\ UNCHANGED request_times
    /\ UNCHANGED <<flow, clock, max_rps, now, wake_at, calls, admitted, completed, cacheVars, last>>
    /\ UNCHANGED <<dest, registryVars>>

\* lines 41-44: the limit test, sleep_time, and the call of time.sleep.
\* request_times[0] on an empty deque raises IndexError.
Check(t) ==
    /\ pc[t] = "check"
    /\ IF AtLimit(request_times)
         THEN IF request_times = <<>>
                THEN SetPc(t, "raised") /\ UNCHANGED wake_at
                ELSE LET s == SleepTime(request_times, now[t]) IN
                     IF MustSleep(s)
                       THEN /\ SetPc(t, "sleep")
                            /\ wake_at' = [wake_at EXCEPT ![t] = clock + s]
                       ELSE SetPc(t, "append") /\ UNCHANGED wake_at
         ELSE SetPc(t, "append") /\ UNCHANGED wake_at
    /\ UNCHANGED <<flow, clock, max_rps, request_times, now, calls, admitted, completed, cacheVars, last>>
    /\ UNCHANGED <<dest, registryVars>>

\* lines 44-45: time.sleep returns no earlier than asked; now = time.time()
Wake(t) ==
    /\ pc[t] = "sleep"
    /\ clock >= wake_at[t]
    /\ now' = [now EXCEPT ![t] = clock]
    /\ SetPc(t, "repurge")
    /\ UNCHANGED <<flow, clock, max_rps, request_times, wake_at, calls, admitted, completed, cacheVars, last>>
    /\ UNCHANGED <<dest, registryVars>>

\* lines 47-48: one iteration of the purge loop after the sleep
RepurgeStep(t) ==
    /\ pc[t] = "repurge"
    /\ IF Stale(request_times, now[t])
         THEN request_times' = Tail(request_times) /\ UNCHANGED pc
         ELSE SetPc(t, "append") /\ UNCHANGED request_times
    /\ UNCHANGED <<flow, clock, max_rps, now, wake_at, calls, admitted, completed, cacheVars, last>>
    /\ UNCHANGED <<dest, registryVars>>

\* line 51: self.request_times.append(now), and the return
Record(t) ==
    /\ pc[t] = "append"
    /\ request_times' = Append(request_times, now[t])
    /\ admitted' = Append(admitted, now[t])
    /\ completed' = Append(completed, clock)
    /\ SetPc(t, "idle")
    /\ UNCHANGED <<flow, clock, max_rps, now, wake_at, calls, cacheVars, last>>
    /\ UNCHANGED <<dest, registryVars>>

Sleeping == \E t \in Threads : pc[t] = "sleep" /\ wake_at[t] > clock

\* the passage of time; past MaxTime only a pending sleep lets it advance
Tick ==
    /\ clock < MaxTime \/ Sleeping
    /\ clock' = clock + 1
    /\ last' = [op |-> "tick"]
    /\ UNCHANGED <<flow, limiterVars, cacheVars>>
    /\ UNCHANGED <<dest, registryVars>>

LimiterStep(t) ==
    \/ Call(t)
    \/ PurgeStep(t)
    \/ Check(t)
    \/ Wake(t)
    \/ RepurgeStep(t)
    \/ Record(t)

\* ------------------------------------------------------ requests and keys

\* Query parameters are a dict in insertion order: a sequence of
\* <<name, value>> pairs with distinct names; NoParams is params=None.
\* Names are numbered in their sort order.
NoParams == [none |-> TRUE, items |-> <<>>]
Dict(items) == [none |-> FALSE, items |-> items]
Urls == {"u1", "u2"}
ParamNames == {1, 2}
ParamValue(n) == IF n = 1 THEN "x" ELSE "y"
NameSeqs ==
    {<<>>} \cup {<<a>> : a \in ParamNames}
           \cup {<<a, b>> : <<a, b>> \in {x \in ParamNames \X ParamNames : x[1] # x[2]}}
ParamDicts ==
    {Dict([i \in DOMAIN ns |-> <<ns[i], ParamValue(ns[i])>>]) : ns \in NameSeqs}
ParamInputs == {NoParams} \cup ParamDicts

\* line 173 / 206: params or {}
OrEmpty(p) == IF p.none \/ p.items = <<>> THEN <<>> ELSE p.items

RECURSIVE InsertByName(_, _)
InsertByName(pair, sorted) ==
    IF sorted = <<>> THEN <<pair>>
    ELSE IF pair[1] <= Head(sorted)[1] THEN <<pair>> \o sorted
    ELSE <<Head(sorted)>> \o InsertByName(pair, Tail(sorted))

RECURSIVE SortKeys(_)
\* json.dumps(..., sort_keys=True): the items in the order of their names
SortKeys(d) ==
    IF d = <<>> THEN <<>> ELSE InsertByName(Head(d), SortKeys(Tail(d)))

\* json.dumps without sort_keys: the items in insertion order
DumpParams_Unsorted(p) == OrEmpty(p)

\* line 173 / 206: json.dumps(params or {}, sort_keys=True)
DumpParams(p) == SortKeys(OrEmpty(p))

\* line 173 / 206: cache_key = f"{url}?{json.dumps(params or {}, sort_keys=True)}"
CacheKey(url, p) == <<url, DumpParams(p)>>

\* the requests the key is exercised with (every parameter input on the first
\* url; no parameters, as None and as {}, on the second), and the two the
\* cache and the client are exercised with
AllRequests ==
    ({"u1"} \X ParamInputs) \cup ({"u2"} \X {NoParams, Dict(<<>>)})
Requests == {<<"u1", NoParams>>, <<"u1", Dict(<<<<2, "y">>, <<1, "x">>>>)>>}
Keys == {CacheKey(r[1], r[2]) : r \in AllRequests}
UsedKeys == {CacheKey(r[1], r[2]) : r \in Requests}

\* lines 63-67: the file of a key, named by the md5 of the key (taken to be
\* free of collisions on Keys)
CachePath(k) == <<"md5", k>>
Paths == {CachePath(k) : k \in Keys}

\* ----------------------------------------------------------- SimpleCache

\* Python's None, returned for absent; the JSON value null loads as None
None == "None"
\* values as json.load returns them: None, an empty dict (falsy in Python)
\* and a non-empty payload
Values == {None, "dict()", "data"}

NoFile == [kind |-> "none"]
\* a file json.load cannot parse (empty, truncated, not JSON)
Garbage == [kind |-> "garbage"]
Entry(v, e) == [kind |-> "record", value |-> v, expires_at |-> e]
\* files that parse as JSON but are not a {value, expires_at} record: a value
\* that is not an object (a list, a number, a string, null), an object without
\* expires_at, and an object whose expires_at is not a number
NonObject == [kind |-> "nonobject"]
NoExpiry == [kind |-> "noexpiry"]
BadExpiry == [kind |-> "badexpiry"]
Malformed == {Garbage, NonObject, NoExpiry, BadExpiry}
\* a file holding a complete record followed by the tail of a longer one that
\* another writer had put there: json.load raises JSONDecodeError (extra data)
Mixed(size) == [kind |-> "mixed", size |-> size]

\* an expiry test that already fails at expires_at
Expired_AtExpiry(t, e) == t >= e

\* line 80: time.time() > cached.get('expires_at', 0)
Expired(t, e) == t > e

\* an expiry that forgets the ttl
ExpiresAt_NoTtl(t, ttl) == t

\* line 96: 'expires_at': time.time() + ttl_seconds
ExpiresAt(t, ttl) == t + ttl

\* SimpleCache.get, lines 69-88, on the file content f at time t:
\* what it returns or raises and what it leaves of the file. Only
\* JSONDecodeError and IOError are caught (line 85): cached.get on a value
\* that is not a dict raises AttributeError, and the comparison of line 80
\* with an expires_at that is not a number raises TypeError. A missing
\* expires_at defaults to 0, which time.time() exceeds.
CacheRead(f, t) ==
    CASE f.kind = "none" -> [value |-> None, file |-> f, error |-> "none"]
      [] f.kind = "garbage" -> [value |-> None, file |-> NoFile, error |-> "none"]
      [] f.kind = "mixed" -> [value |-> None, file |-> NoFile, error |-> "none"]
      [] f.kind = "nonobject" -> [value |-> None, file |-> f, error |-> "AttributeError"]
      [] f.kind = "badexpiry" -> [value |-> None, file |-> f, error |-> "TypeError"]
      [] f.kind = "noexpiry" -> [value |-> None, file |-> NoFile, error |-> "none"]
      [] f.kind = "record" ->
            IF Expired(t, f.expires_at)
              THEN [value |-> None, file |-> NoFile, error |-> "none"]
              ELSE [value |-> f.value, file |-> f, error |-> "none"]

\* the outcomes of writing the file: written, open() fails (file untouched),
\* or the write fails after open() truncated the file; IOError is swallowed
StorageOutcomes == {"ok", "open_fails", "write_fails"}

\* a write that keeps an entry that is still fresh
CacheWrite_KeepFresh(f, v, t, ttl, o) ==
    IF f.kind = "record" /\ ~Expired(t, f.expires_at) THEN f
    ELSE Entry(v, ExpiresAt(t, ttl))

\* a set that lets the IOError of a failed write out
SetRaises_Propagates(o) == o # "ok"

\* lines 100-102: except IOError: pass
SetRaises(o) == FALSE

\* SimpleCache.set, lines 90-102: the file it leaves
CacheWrite(f, v, t, ttl, o) ==
    CASE o = "ok" -> Entry(v, ExpiresAt(t, ttl))
      [] o = "open_fails" -> f
      [] o = "write_fails" -> Garbage

NeverWritten == [n |-> 0, persisted |-> FALSE]
\* the history entry of a set: how many sets the key has seen (capped at 2),
\* whether the file was written and, if it was, the value, the time the ttl
\* runs out (the time of the set plus the ttl), the query parameters of the
\* request that stored it and whether the set before had stored another value
WriteRecord(old, v, t, ttl, o, by) ==
    IF o = "ok"
      THEN [n |-> IF old.n = 0 THEN 1 ELSE 2, persisted |-> TRUE, value |-> v,
            due |-> t + ttl, by |-> by,
            changed |-> (old.n > 0 /\ old.persisted /\ old.value # v)]
      ELSE [n |-> IF old.n = 0 THEN 1 ELSE 2, persisted |-> FALSE]

\* a direct SimpleCache.get(k)
CacheGetOp(k) ==
    LET r == CacheRead(files[CachePath(k)], clock) IN
    /\ files' = [files EXCEPT ![CachePath(k)] = r.file]
    /\ last' = [op |-> "get", key |-> k, result |-> r.value, error |-> r.error]
    /\ UNCHANGED <<flow, clock, limiterVars, written, cache_ttl, enable_cache, cache_op>>
    /\ UNCHANGED <<dest, registryVars>>

\* the file of k is replaced behind the cache's back by content c
Corrupt(k, c) ==
    /\ files[CachePath(k)] # c
    /\ files' = [files EXCEPT ![CachePath(k)] = c]
    /\ last' = [op |-> "corrupt", key |-> k]
    /\ UNCHANGED <<flow, clock, limiterVars, written, cache_ttl, enable_cache, cache_op>>
    /\ UNCHANGED <<dest, registryVars>>

\* a direct SimpleCache.set(k, v, ttl)
CacheSetOp(k, v, ttl, o) ==
    /\ files' = [files EXCEPT ![CachePath(k)] = CacheWrite(@, v, clock, ttl, o)]
    /\ written' = [written EXCEPT ![k] = WriteRecord(@, v, clock, ttl, o, NoParams)]
    /\ last' = [op |-> "set", key |-> k, value |-> v, ttl |-> ttl,
                 error |-> IF SetRaises(o) THEN "IOError" ELSE "none"]
    /\ UNCHANGED <<flow, clock, limiterVars, cache_ttl, enable_cache, cache_op>>
    /\ UNCHANGED <<dest, registryVars>>

\* ------------------------------------- SimpleCache shared by several threads

\* SimpleCache takes no lock and writes in place: the steps of get and set
\* of different threads interleave at every file operation.
IdleOp == [pc |-> "idle"]
AllIdle == \A t \in Threads : cache_op[t].pc = "idle"

\* the length of the text json.dump writes for a value
TextLen(v) ==
    CASE v = None -> 4
      [] v = "dict()" -> 2
      [] OTHER -> 6

\* the length of the file at a path
FileSize(f) ==
    CASE f.kind = "record" -> TextLen(f.value)
      [] f.kind = "mixed" -> f.size
      [] OTHER -> 0

\* lines 98-99, the flush at close: the writer's text replaces the bytes of
\* the file from offset 0; what lies beyond its end stays
Overlay(f, v, e) ==
    IF FileSize(f) <= TextLen(v) THEN Entry(v, e) ELSE Mixed(FileSize(f))

\* the payloads the threads store
ThreadValues == {"dict()", "data"}

\* lines 92-97: the path and the record to store
SetBegin(t, k, v) ==
    /\ cache_op[t].pc = "idle"
    /\ cache_op' = [cache_op EXCEPT ![t] =
          [pc |-> "set_open", op |-> "set", key |-> k, value |-> v,
           expires_at |-> ExpiresAt(clock, cache_ttl), attached |-> FALSE]]
    /\ UNCHANGED <<flow, clock, limiterVars, files, written, cache_ttl, enable_cache,
                   dest, registryVars, last>>

\* line 98: open(cache_path, 'w') creates or truncates the file
SetOpen(t) ==
    /\ cache_op[t].pc = "set_open"
    /\ files' = [files EXCEPT ![CachePath(cache_op[t].key)] = Garbage]
    /\ cache_op' = [cache_op EXCEPT ![t].pc = "set_close", ![t].attached = TRUE]
    /\ UNCHANGED <<flow, clock, limiterVars, written, cache_ttl, enable_cache,
                   dest, registryVars, last>>

\* lines 98-99: json.dump into the buffer and the flush when the with block
\* closes the file; a file unlinked since the open is written out of sight
SetClose(t) ==
    LET o == cache_op[t]
        p == CachePath(o.key)
    IN  /\ o.pc = "set_close"
        /\ files' = [files EXCEPT ![p] =
              IF o.attached THEN Overlay(@, o.value, o.expires_at) ELSE @]
        /\ written' = [written EXCEPT ![o.key] =
              WriteRecord(@, o.value, o.expires_at, 0, "ok", NoParams)]
        /\ cache_op' = [cache_op EXCEPT ![t].pc = "idle"]
        /\ last' = [op |-> "set", key |-> o.key, value |-> o.value,
                    ttl |-> cache_ttl, error |-> "none", thread |-> t]
        /\ UNCHANGED <<flow, clock, limiterVars, cache_ttl, enable_cache, dest, registryVars>>

SetStep(t, keys) ==
    \/ \E k \in keys, v \in ThreadValues : SetBegin(t, k, v)
    \/ SetOpen(t)
    \/ SetClose(t)

\* what a thread's get returns or raises
GetReturns(t, k, v, e) ==
    /\ cache_op' = [cache_op EXCEPT ![t] = [pc |-> "idle", op |-> "get", key |-> k]]
    /\ last' = [op |-> "get", key |-> k, result |-> v, error |-> e, thread |-> t]

\* cache_path.unlink(): the file leaves the directory; writers that hold it
\* open keep writing to the unlinked file
Detach(ops, k) ==
    [u \in Threads |->
        IF ops[u].pc = "set_close" /\ ops[u].key = k
          THEN [ops[u] EXCEPT !.attached = FALSE] ELSE ops[u]]

\* lines 71-73: if not cache_path.exists(): return None
GetBegin(t, k) ==
    /\ cache_op[t].pc = "idle"
    /\ IF files[CachePath(k)] = NoFile
         THEN GetReturns(t, k, None, "none")
         ELSE /\ cache_op' = [cache_op EXCEPT ![t] =
                    [pc |-> "get_load", op |-> "get", key |-> k]]
              /\ UNCHANGED last
    /\ UNCHANGED <<flow, clock, limiterVars, files, written, cache_ttl, enable_cache,
                   dest, registryVars>>

\* lines 76-84: open, json.load and the expiry test. A file that has gone
\* raises FileNotFoundError (an IOError), an unparseable one JSONDecodeError.
GetLoad(t) ==
    LET k == cache_op[t].key
        f == files[CachePath(k)]
    IN  /\ cache_op[t].pc = "get_load"
        /\ CASE f.kind = "record" /\ ~Expired(clock, f.expires_at) ->
                    GetReturns(t, k, f.value, "none")
             [] f.kind = "record" /\ Expired(clock, f.expires_at) ->
                    /\ cache_op' = [cache_op EXCEPT ![t].pc = "unlink_expired"]
                    /\ UNCHANGED last
             [] f.kind \in {"nonobject", "badexpiry"} ->
                    GetReturns(t, k, None, CacheRead(f, clock).error)
             [] f.kind = "noexpiry" ->
                    /\ cache_op' = [cache_op EXCEPT ![t].pc = "unlink_expired"]
                    /\ UNCHANGED last
             [] OTHER ->
                    /\ cache_op' = [cache_op EXCEPT ![t].pc = "unlink_corrupt"]
                    /\ UNCHANGED last
        /\ UNCHANGED <<flow, clock, limiterVars, files, written, cache_ttl, enable_cache,
                       dest, registryVars>>

\* lines 81-82: cache_path.unlink() inside the try; FileNotFoundError is
\* caught by line 85
GetUnlinkExpired(t) ==
    LET k == cache_op[t].key IN
    /\ cache_op[t].pc = "unlink_expired"
    /\ IF files[CachePath(k)] = NoFile
         THEN /\ cache_op' = [cache_op EXCEPT ![t].pc = "unlink_corrupt"]
              /\ UNCHANGED <<files, last>>
         ELSE /\ files' = [files EXCEPT ![CachePath(k)] = NoFile]
              /\ cache_op' = [Detach(cache_op, k) EXCEPT ![t] =
                    [pc |-> "idle", op |-> "get", key |-> k]]
              /\ last' = [op |-> "get", key |-> k, result |-> None,
                          error |-> "none", thread |-> t]
    /\ UNCHANGED <<flow, clock, limiterVars, written, cache_ttl, enable_cache,
                   dest, registryVars>>

\* lines 85-88: cache_path.unlink() inside the except clause; nothing catches
\* the FileNotFoundError it raises when the file has gone
GetUnlinkCorrupt(t) ==
    LET k == cache_op[t].key IN
    /\ cache_op[t].pc = "unlink_corrupt"
    /\ IF files[CachePath(k)] = NoFile
         THEN /\ GetReturns(t, k, None, "FileNotFoundError")
              /\ UNCHANGED files
         ELSE /\ files' = [files EXCEPT ![CachePath(k)] = NoFile]
              /\ cache_op' = [Detach(cache_op, k) EXCEPT ![t] =
                    [pc |-> "idle", op |-> "get", key |-> k]]
              /\ last' = [op |-> "get", key |-> k, result |-> None,
                          error |-> "none", thread |-> t]
    /\ UNCHANGED <<flow, clock, limiterVars, written, cache_ttl, enable_cache,
                   dest, registryVars>>

GetStep(t, keys) ==
    \/ \E k \in keys : GetBegin(t, k)
    \/ GetLoad(t)
    \/ GetUnlinkExpired(t)
    \/ GetUnlinkCorrupt(t)

\* a get made while no other call of the cache is running
QuietGet(k) == AllIdle /\ CacheGetOp(k)

\* --------------------------------------------------------- SECHttpClient

\* line 136: Retry(total=3): urllib3 sends the request and then up to 3 retries
RetryTotal == 3
\* line 138: status_forcelist
RetryStatuses == {429, 500, 502, 503, 504}

\* response bodies: three JSON texts and one text that is not JSON
JsonTexts == {"null", "{}", "\"data\""}
Bodies == JsonTexts \cup {"<html>"}

\* a parse that accepts every body
IsJson_Lenient(text) == TRUE

\* line 205: response.json() parses or raises ValueError
IsJson(text) == text \in JsonTexts
Loads(text) ==
    CASE text = "null" -> None
      [] text = "{}" -> "dict()"
      [] text = "\"data\"" -> "data"
      [] OTHER -> "ValueError"

\* line 179: json.dumps(cached_response)
Dumps(v) ==
    CASE v = None -> "null"
      [] v = "dict()" -> "{}"
      [] v = "data" -> "\"data\""

\* RateLimiter.wait_if_needed, lines 32-51, run by one caller without
\* interruption at time t; the sleep lasts sleep_time plus over.
RECURSIVE PurgeAll(_, _)
PurgeAll(q, t) == IF Stale(q, t) THEN PurgeAll(Tail(q), t) ELSE q

WillSleep(q, t) ==
    LET q1 == PurgeAll(q, t) IN AtLimit(q1) /\ MustSleep(SleepTime(q1, t))

WaitIfNeeded(q, t, over) ==
    LET q1 == PurgeAll(q, t) IN
    IF WillSleep(q, t)
      THEN LET t2 == t + SleepTime(q1, t) + over
           IN  [q |-> Append(PurgeAll(q1, t2), t2), at |-> t2, slept |-> TRUE]
      ELSE [q |-> Append(q1, t), at |-> t, slept |-> FALSE]

\* What the origin does with one request: it answers the first `transient`
\* attempts with a status of the forcelist and the next one with (status, body).
Scenario(n, st, b) == [transient |-> n, status |-> st, body |-> b]
Scenarios ==
    {Scenario(n, 200, "\"data\"") : n \in 0..MaxTransient}
        \cup {Scenario(0, 200, b) : b \in Bodies}
        \cup {Scenario(0, 201, "\"data\"")}
        \cup {Scenario(0, st, "<html>") : st \in {304, 404}}

\* a request that never raises
Fetch_NeverRaises(sc) ==
    [raised |-> FALSE, attempts |-> 1, status |-> sc.status, body |-> sc.body,
     cause |-> "none"]

\* lines 193-199: session.get under the mounted retry policy, then
\* raise_for_status. Exhausted retries raise RetryError, a 4xx/5xx final
\* status raises HTTPError; both are RequestException.
Fetch(sc) ==
    IF sc.transient > RetryTotal
      THEN [raised |-> TRUE, attempts |-> RetryTotal + 1, status |-> 503,
            body |-> "<html>", cause |-> "RetryError"]
      ELSE [raised |-> sc.status >= 400, attempts |-> sc.transient + 1,
            status |-> sc.status, body |-> sc.body,
            cause |-> IF sc.status >= 400 THEN "HTTPError" ELSE "none"]

\* the headers argument of get: None, or a mapping whose User-Agent entry is
\* absent, empty or another agent
NoHeaders == [none |-> TRUE, ua |-> "absent"]
Headers(ua) == [none |-> FALSE, ua |-> ua]
HeaderInputs == {NoHeaders} \cup {Headers(ua) : ua \in {"absent", "", "other-agent"}}

\* line 116: the default user_agent, set on the session by lines 146-147
UserAgent == "flow_researcher bryan@example.com"

\* lines 187-189: the User-Agent of request_headers, the session headers
\* updated with the caller's
RequestHeaders(headers) ==
    IF headers.none \/ headers.ua = "absent" THEN UserAgent ELSE headers.ua

\* line 172: if use_cache and self.cache
Consults(use_cache) == use_cache /\ enable_cache

\* line 175: if cached_response is not None
IsHit(v) == v # None

\* a caching test that ignores use_cache
Caches_Always(use_cache, status) == enable_cache /\ status = 200

\* line 202: if use_cache and self.cache and response.status_code == 200
Caches(use_cache, status) == use_cache /\ enable_cache /\ status = 200

\* what a get returned or raised, and what it did on the way: error is
\* "none" when a response was returned, cause the exception that line 214
\* wraps, user_agent the User-Agent header that was sent, cache_set whether
\* line 207 was reached
GetResult(k, params, use_cache, hit, error, cause, status, body, attempts, ua, cache_set) ==
    [op |-> "http_get", url |-> k[1], key |-> k, params |-> params, use_cache |-> use_cache,
     hit |-> hit, raised |-> error # "none", error |-> error, cause |-> cause,
     status |-> status, body |-> body, attempts |-> attempts,
     user_agent |-> ua, cache_set |-> cache_set]

\* SECHttpClient.get, lines 171-181: the cache lookup and the response
\* synthesized from a cached payload
GetFromCache(url, headers, params, use_cache) ==
    LET k == CacheKey(url, params)
        rd == CacheRead(files[CachePath(k)], clock)
    IN  /\ Consults(use_cache)
        /\ rd.error = "none"
        /\ IsHit(rd.value)
        /\ files' = [files EXCEPT ![CachePath(k)] = rd.file]
        /\ last' = GetResult(k, params, use_cache, TRUE, "none", "none", 200,
                             Dumps(rd.value), 0, "not sent", FALSE)
        /\ UNCHANGED <<flow, clock, limiterVars, written, cache_ttl, enable_cache, cache_op>>
        /\ UNCHANGED <<dest, registryVars>>

\* SECHttpClient.get, lines 171-174: the lookup raises; nothing catches it
GetLookupRaises(url, headers, params, use_cache) ==
    LET k == CacheKey(url, params)
        rd == CacheRead(files[CachePath(k)], clock)
    IN  /\ Consults(use_cache)
        /\ rd.error # "none"
        /\ files' = [files EXCEPT ![CachePath(k)] = rd.file]
        /\ last' = GetResult(k, params, use_cache, FALSE, rd.error, "none", 0,
                             "", 0, "not sent", FALSE)
        /\ UNCHANGED <<flow, clock, limiterVars, written, cache_ttl, enable_cache, cache_op>>
        /\ UNCHANGED <<dest, registryVars>>

\* SECHttpClient.get, lines 171-214, when the lookup is skipped or misses:
\* the lookup (which may delete the file), wait_if_needed, the request with
\* its retries, and the caching of a JSON body
GetFromNetwork(url, headers, params, use_cache, scenarios) ==
    LET k == CacheKey(url, params)
        p == CachePath(k)
        rd == IF Consults(use_cache)
                THEN CacheRead(files[p], clock)
                ELSE [value |-> None, file |-> files[p], error |-> "none"]
    IN  /\ rd.error = "none"
        /\ ~(Consults(use_cache) /\ IsHit(rd.value))
        /\ calls < MaxFetches
        /\ \E over \in (IF WillSleep(request_times, clock) THEN 0..MaxOversleep ELSE {0}),
              sc \in scenarios :
             LET adm == WaitIfNeeded(request_times, clock, over)
                 f == Fetch(sc)
                 t2 == adm.at
                 stores == ~f.raised /\ Caches(use_cache, f.status) /\ IsJson(f.body)
             IN  /\ request_times' = adm.q
                 /\ admitted' = Append(admitted, adm.at)
                 /\ completed' = Append(completed, adm.at)
                 /\ calls' = calls + 1
                 /\ clock' = t2
                 /\ \E o \in (IF stores THEN StorageOutcomes ELSE {"ok"}) :
                      /\ IF stores
                           THEN /\ files' = [files EXCEPT ![p] =
                                      CacheWrite(rd.file, Loads(f.body), t2, cache_ttl, o)]
                                /\ written' = [written EXCEPT ![k] =
                                      WriteRecord(@, Loads(f.body), t2, cache_ttl, o, params)]
                           ELSE /\ files' = [files EXCEPT ![p] = rd.file]
                                /\ UNCHANGED written
                      /\ last' = GetResult(k, params, use_cache, FALSE,
                                    IF f.raised THEN "Exception: HTTP request failed"
                                    ELSE IF stores /\ SetRaises(o) THEN "IOError"
                                    ELSE "none",
                                    f.cause, f.status, f.body, f.attempts,
                                    RequestHeaders(headers), stores)
        /\ UNCHANGED <<flow, max_rps, pc, now, wake_at, cache_ttl, enable_cache, cache_op>>
        /\ UNCHANGED <<dest, registryVars>>

\* SECHttpClient.get, lines 152-214, when the lookup does not raise
HttpGet(url, headers, params, use_cache, scenarios) ==
    \/ GetFromCache(url, headers, params, use_cache)
    \/ GetFromNetwork(url, headers, params, use_cache, scenarios)

\* ------------------------------------------------ SECHttpClient.download

\* destination paths, and what a destination holds: nothing, a file that was
\* there before the client ran, the part of a body written before a failure,
\* or the whole body of a response
DestPaths == {"d1", "d2"}
Absent == [kind |-> "absent"]
OldFile == [kind |-> "old"]
Partial == [kind |-> "partial"]
Complete(url) == [kind |-> "complete", url |-> url]

\* line 237 / 254: str(dest_path_obj.absolute())
Absolute(d) == <<"cwd", d>>

\* a skip test that ignores use_cache
SkipsDownload_Exists(use_cache, f) == f.kind # "absent"

\* line 236: if use_cache and dest_path_obj.exists()
SkipsDownload(use_cache, f) == use_cache /\ f.kind # "absent"

\* line 240: parent.mkdir(parents=True, exist_ok=True) succeeds or raises
\* OSError; the parent of an existing destination is a directory
MkdirOutcomes(f) == IF f.kind = "absent" THEN {"ok", "mkdir_fails"} ELSE {"ok"}

\* lines 250-252: open(dest, 'wb') and the streaming of the body: all of it
\* is written, open raises OSError (file untouched), the connection breaks
\* while streaming (a RequestException) or a write raises OSError, both
\* after open has truncated the file
StreamOutcomes == {"ok", "open_fails", "stream_breaks", "write_fails"}

\* what the origin does with a download request
DownloadScenarios ==
    {Scenario(n, 200, "<html>") : n \in {0, MaxTransient}}
        \cup {Scenario(0, 404, "<html>")}

\* the file lines 250-252 leave
StreamWrite(f, url, o) ==
    CASE o = "ok" -> Complete(url)
      [] o = "open_fails" -> f
      [] OTHER -> Partial

DownloadResult(url, d, use_cache, error, trace, attempts) ==
    [op |-> "download", url |-> url, dest |-> d, use_cache |-> use_cache,
     error |-> error, path |-> IF error = "none" THEN Absolute(d) ELSE None,
     trace |-> trace, attempts |-> attempts]

\* lines 233-237: the destination exists and use_cache is set
DownloadSkipped(url, d, use_cache) ==
    /\ SkipsDownload(use_cache, dest[d])
    /\ last' = DownloadResult(url, d, use_cache, "none", <<>>, 0)
    /\ UNCHANGED <<flow, clock, limiterVars, cacheVars, dest, registryVars>>

\* lines 240: mkdir raises, before the limiter is asked
DownloadMkdirFails(url, d, use_cache) ==
    /\ ~SkipsDownload(use_cache, dest[d])
    /\ "mkdir_fails" \in MkdirOutcomes(dest[d])
    /\ last' = DownloadResult(url, d, use_cache, "OSError", <<"mkdir">>, 0)
    /\ UNCHANGED <<flow, clock, limiterVars, cacheVars, dest, registryVars>>

\* lines 240-256: mkdir, wait_if_needed, the request with its retries and
\* raise_for_status, then the streaming of the body into the file. A
\* RequestException is wrapped ("Download failed: ..."); OSError is not.
DownloadFetched(url, d, use_cache) ==
    /\ ~SkipsDownload(use_cache, dest[d])
    /\ calls < MaxFetches
    /\ \E over \in (IF WillSleep(request_times, clock) THEN 0..MaxOversleep ELSE {0}),
          sc \in DownloadScenarios, o \in StreamOutcomes :
         LET adm == WaitIfNeeded(request_times, clock, over)
             f == Fetch(sc)
             error == IF f.raised \/ o = "stream_breaks" THEN "Exception: Download failed"
                      ELSE IF o = "ok" THEN "none" ELSE "OSError"
         IN  /\ f.raised => o = "ok"    \* no body is streamed after a failure
             /\ request_times' = adm.q
             /\ admitted' = Append(admitted, adm.at)
             /\ completed' = Append(completed, adm.at)
             /\ calls' = calls + 1
             /\ clock' = adm.at
             /\ dest' = [dest EXCEPT ![d] = IF f.raised THEN @ ELSE StreamWrite(@, url, o)]
             /\ last' = DownloadResult(url, d, use_cache, error,
                           IF f.raised THEN <<"mkdir", "admit", "request">>
                           ELSE <<"mkdir", "admit", "request", "open">>,
                           f.attempts)
    /\ UNCHANGED <<flow, max_rps, pc, now, wake_at, cacheVars, registryVars>>

\* SECHttpClient.download, lines 216-256
Download(url, d, use_cache) ==
    \/ DownloadSkipped(url, d, use_cache)
    \/ DownloadMkdirFails(url, d, use_cache)
    \/ DownloadFetched(url, d, use_cache)

\* -------------------------------------------- the default-client registry

\* SECHttpClient.__init__ defaults, lines 117-120
DefaultMaxRps == 10
DefaultTimeout == 30
DefaultCacheTtl == 3600

\* a client object: its identity and the configuration it was built with
Client(id, rps, timeout, ttl, cache) ==
    [id |-> id, max_rps |-> rps, timeout |-> timeout, cache_ttl |-> ttl,
     enable_cache |-> cache]

\* line 260: _default_client = None
NoClient == [id |-> "None"]

\* line 267: SECHttpClient(), the n-th instance the registry constructs
Baseline(n) ==
    Client(<<"default", n>>, DefaultMaxRps, DefaultTimeout, DefaultCacheTtl, TRUE)

\* clients built by the caller, with a configuration of their own
CustomClients ==
    {Client(<<"custom", rps, cache>>, rps, DefaultTimeout, DefaultCacheTtl, cache) :
        rps \in {1, 5, DefaultMaxRps}, cache \in BOOLEAN}

\* a test that never finds a default installed
NeedsDefault_Always(c) == TRUE

\* line 266: if _default_client is None
NeedsDefault(c) == c = NoClient

\* get_default_client, lines 263-268
GetDefaultClient ==
    /\ IF NeedsDefault(default_client)
         THEN /\ Len(constructed) < MaxConstructed
              /\ default_client' = Baseline(Len(constructed) + 1)
              /\ constructed' = Append(constructed, default_client')
         ELSE UNCHANGED <<default_client, constructed>>
    /\ last' = [op |-> "get_default_client", result |-> default_client']
    /\ UNCHANGED <<flow, clock, limiterVars, cacheVars, dest, reg_pc, reg_new>>

\* set_default_client(client), lines 271-274
SetDefaultClient(c) ==
    /\ default_client' = c
    /\ last' = [op |-> "set_default_client", client |-> c]
    /\ UNCHANGED <<flow, clock, limiterVars, cacheVars, dest, constructed, reg_pc, reg_new>>

\* get_default_client run by thread t, one step per read or write of the
\* global; the module takes no lock
SetRegPc(t, p) == reg_pc' = [reg_pc EXCEPT ![t] = p]

\* line 266: if _default_client is None
RegCheck(t) ==
    /\ reg_pc[t] = "idle"
    /\ SetRegPc(t, IF NeedsDefault(default_client) THEN "construct" ELSE "return")
    /\ UNCHANGED <<flow, clock, limiterVars, cacheVars, dest, default_client,
                   constructed, reg_new, last>>

\* line 267, right-hand side: SECHttpClient()
RegConstruct(t) ==
    /\ reg_pc[t] = "construct"
    /\ Len(constructed) < MaxConstructed
    /\ reg_new' = [reg_new EXCEPT ![t] = Baseline(Len(constructed) + 1)]
    /\ constructed' = Append(constructed, reg_new'[t])
    /\ SetRegPc(t, "assign")
    /\ UNCHANGED <<flow, clock, limiterVars, cacheVars, dest, default_client, last>>

\* line 267, the assignment to the global
RegAssign(t) ==
    /\ reg_pc[t] = "assign"
    /\ default_client' = reg_new[t]
    /\ SetRegPc(t, "return")
    /\ UNCHANGED <<flow, clock, limiterVars, cacheVars, dest, constructed, reg_new, last>>

\* line 268: return _default_client
RegReturn(t) ==
    /\ reg_pc[t] = "return"
    /\ last' = [op |-> "get_default_client", result |-> default_client, thread |-> t]
    /\ SetRegPc(t, "idle")
    /\ UNCHANGED <<flow, clock, limiterVars, cacheVars, dest, default_client,
                   constructed, reg_new>>

RegStep(t) ==
    \/ RegCheck(t)
    \/ RegConstruct(t)
    \/ RegAssign(t)
    \/ RegReturn(t)

\* --------------------------------------------------- FinancialSnapshotFlow
\* src/src/flow_researcher/flows/financial_snapshot_flow.py

\* the start method was called without this argument
NotPassed == "<not passed>"

\* str.upper()
Upper(s) ==
    CASE s = "aapl" -> "AAPL"
      [] s = " msft " -> " MSFT "
      [] OTHER -> s

\* str.strip()
Strip(s) ==
    CASE s = " MSFT " -> "MSFT"
      [] s = "   " -> ""
      [] OTHER -> s

\* crewai_trigger_payload: None, or a dict whose "ticker" entry is a text
\* or is missing (None)
NoPayload == [dict |-> FALSE]
Payload(t) == [dict |-> TRUE, ticker |-> t]

\* line 75: crewai_trigger_payload and crewai_trigger_payload.get("ticker")
PayloadTicker(p) == p.dict /\ p.ticker # None /\ p.ticker # ""

\* line 61: the default of the parameter ticker
Arg(direct) == IF direct = NotPassed THEN "LAD" ELSE direct

\* FinancialSnapshotState, lines 29-34
NoSummary == [kind |-> "empty"]
ErrorSummary(message) == [kind |-> "error", message |-> message]
NewState ==
    [ticker |-> "LAD", cik |-> "", company_profile |-> None,
     financial_metrics |-> None, snapshot_summary |-> NoSummary,
     error_message |-> ""]

\* what a step hands back: the state it leaves, the value it returns and
\* the number of tool calls it made
Outcome(st, result, tool_calls) ==
    [state |-> st, result |-> result, tool_calls |-> tool_calls]

\* lines 60-87
InitializeTicker(st, ticker, payload) ==
    LET chosen == IF ticker # "" /\ ticker # "LAD"
                    THEN Strip(Upper(ticker))
                    ELSE IF PayloadTicker(payload)
                           THEN Strip(Upper(payload.ticker))
                           ELSE "LAD"
        st1 == [st EXCEPT !.ticker = chosen]
    IN  IF chosen = ""
          THEN Outcome([st1 EXCEPT !.error_message = "No ticker provided"],
                       "error", 0)
          ELSE Outcome(st1, "ticker_initialized", 0)

\* what TickerToCikTool._run can hand back (company_tools.py, lines 83-155):
\* a record with the zero-padded CIK, a record without data and with one
\* warning, or an exception raised before its own try (line 85); no row of
\* the SEC table has an empty ticker
CikOutcomes(ticker) ==
    IF ticker = "" THEN {"not_found", "raises"}
                   ELSE {"found", "not_found", "raises"}

\* lines 89-126
GetCompanyInfo(st, cik_out, profile_out) ==
    CASE cik_out = "raises" ->
           Outcome([st EXCEPT !.error_message = "Error getting company info"],
                   "error", 1)
      [] cik_out = "not_found" ->
           Outcome([st EXCEPT !.error_message = "Ticker not found in SEC database"],
                   "company_not_found", 1)
      [] cik_out = "found" ->
           LET st1 == [st EXCEPT !.cik = "0000000001"]  \* cik.zfill(10)
           IN  CASE profile_out = "found" ->
                      Outcome([st1 EXCEPT !.company_profile = "profile"],
                              "company_found", 2)
                 [] profile_out = "empty" ->
                      Outcome([st1 EXCEPT !.error_message =
                                              "Failed to retrieve company profile"],
                              "company_not_found", 2)
                 [] profile_out = "raises" ->
                      Outcome([st1 EXCEPT !.error_message =
                                              "Error getting company info"],
                              "error", 2)

\* lines 128-140
RouteByCompanyStatus(st, status) ==
    Outcome(st, IF status = "company_found" THEN "fetch_metrics"
                                            ELSE "handle_error", 0)

\* lines 142-171
GetFinancialMetrics(st, metrics_out) ==
    CASE metrics_out = "series" ->
           Outcome([st EXCEPT !.financial_metrics = "metrics"], "metrics_fetched", 1)
      [] metrics_out = "no_series" ->
           Outcome([st EXCEPT !.error_message = "No financial metrics available"],
                   "metrics_fetched", 1)
      [] metrics_out = "raises" ->
           Outcome([st EXCEPT !.error_message = "Error fetching metrics"],
                   "metrics_fetched", 1)

\* lines 173-222
GenerateSnapshotSummary(st, crew_out) ==
    IF crew_out = "raises"
      THEN Outcome([st EXCEPT !.error_message = "Error generating summary",
                              !.snapshot_summary =
                                  ErrorSummary("Error generating summary")],
                   "summary_complete", 0)
      ELSE Outcome([st EXCEPT !.snapshot_summary = [kind |-> "crew"]],
                   "summary_complete", 0)

\* lines 224-232
HandleError(st) ==
    Outcome(IF st.snapshot_summary = NoSummary
              THEN [st EXCEPT !.snapshot_summary = ErrorSummary(st.error_message)]
              ELSE st,
            "flow_complete", 0)

\* lines 234-240
CompleteFlow(st) == Outcome(st, "flow_complete", 0)

\* the decorators: @listen (lines 89, 142, 173, 224, 234) and @router
\* (line 128); initialize_ticker is the @start method (line 60)
ListensTo ==
    [get_company_info |-> "initialize_ticker",
     route_by_company_status |-> "get_company_info",
     get_financial_metrics |-> "fetch_metrics",
     generate_snapshot_summary |-> "metrics_fetched",
     handle_error |-> "handle_error",
     complete_flow |-> "summary_complete"]
Routers == {"route_by_company_status"}
Methods == {"initialize_ticker"} \cup DOMAIN ListensTo

\* crewai.flow dispatch: a method that finishes triggers the listeners of
\* its own name; only the value returned by a @router method is a trigger
\* as well
Emits(m, result) == IF m \in Routers THEN {m, result} ELSE {m}

\* the body of method m run on state st; a listener receives the value
\* returned by the method that triggered it
RunMethod(m, st, status, cik_out, profile_out, metrics_out, crew_out) ==
    CASE m = "get_company_info" -> GetCompanyInfo(st, cik_out, profile_out)
      [] m = "route_by_company_status" -> RouteByCompanyStatus(st, status)
      [] m = "get_financial_metrics" -> GetFinancialMetrics(st, metrics_out)
      [] m = "generate_snapshot_summary" -> GenerateSnapshotSummary(st, crew_out)
      [] m = "handle_error" -> HandleError(st)
      [] m = "complete_flow" -> CompleteFlow(st)

\* FinancialSnapshotFlow(): nothing has run
NewFlow ==
    [state |-> NewState,
     outputs |-> [m \in Methods |-> None],
     triggers |-> {},
     args |-> [inputs |-> NotPassed, ticker |-> NotPassed, payload |-> NoPayload],
     tool_calls |-> 0]

\* the methods that have run
Ran == {m \in Methods : flow.outputs[m] # None}

\* main.py lines 25-27, flow.kickoff(inputs): the inputs are filtered into
\* the state (lines 40-54) and the start method runs with the arguments
\* the engine hands it
Kickoff(inputs, direct, payload) ==
    /\ Ran = {}
    /\ LET st == IF inputs = NotPassed THEN NewState
                                      ELSE [NewState EXCEPT !.ticker = inputs]
           r == InitializeTicker(st, Arg(direct), payload)
       IN  flow' = [state |-> r.state,
                    outputs |-> [flow.outputs EXCEPT !["initialize_ticker"] = r.result],
                    triggers |-> Emits("initialize_ticker", r.result),
                    args |-> [inputs |-> inputs, ticker |-> direct,
                              payload |-> payload],
                    tool_calls |-> 0]
    /\ UNCHANGED <<clock, limiterVars, cacheVars, dest, registryVars, last>>

\* the engine runs a listener whose trigger has been emitted
Execute(m) ==
    /\ m \in DOMAIN ListensTo
    /\ ListensTo[m] \in flow.triggers
    \* what GetCompanyProfileTool._run, GetKeyFinancialSeriesTool._run and
    \* FinancialAnalystCrew().crew().kickoff can hand back
    /\ \E cik_out \in CikOutcomes(flow.state.ticker),
          profile_out \in {"found", "empty", "raises"},
          metrics_out \in {"series", "no_series", "raises"},
          crew_out \in {"raw", "tasks_output", "plain", "raises"} :
          LET r == RunMethod(m, flow.state, flow.outputs["get_company_info"],
                             cik_out, profile_out, metrics_out, crew_out)
          IN  flow' = [flow EXCEPT !.state = r.state,
                                   !.outputs[m] = r.result,
                                   !.triggers = Emits(m, r.result),
                                   !.tool_calls = IF m = "get_company_info"
                                                    THEN r.tool_calls
                                                    ELSE @]
    /\ UNCHANGED <<clock, limiterVars, cacheVars, dest, registryVars, last>>

\* ------------------------------------------------------- specifications

\* RateLimiter.__init__, lines 27-30, for a ceiling > 0
InitLimiterState ==
    /\ request_times = <<>>
    /\ pc = [t \in Threads |-> "idle"]
    /\ now = [t \in Threads |-> 0]
    /\ wake_at = [t \in Threads |-> 0]
    /\ calls = 0
    /\ admitted = <<>>
    /\ completed = <<>>

\* SimpleCache.__init__, lines 57-61, on a fresh cache directory
InitCacheState ==
    /\ files = [p \in Paths |-> NoFile]
    /\ written = [k \in Keys |-> NeverWritten]
    /\ cache_op = [t \in Threads |-> IdleOp]

\* no download destination exists yet
InitDownloadState == dest = [d \in DestPaths |-> Absent]

\* line 260: the module is imported, no default client yet
InitRegistryState ==
    /\ default_client = NoClient
    /\ constructed = <<>>
    /\ reg_pc = [t \in Threads |-> "idle"]
    /\ reg_new = [t \in Threads |-> NoClient]

\* the cache_ttl_seconds and enable_cache a client is constructed with,
\* lines 119-125
DefaultConfig ==
    /\ cache_ttl = MaxTtl
    /\ enable_cache = TRUE

InitLimiter ==
    /\ clock = 0
    /\ max_rps \in 1..MaxCeiling
    /\ InitLimiterState
    /\ InitCacheState
    /\ InitDownloadState
    /\ InitRegistryState
    /\ flow = NewFlow
    /\ DefaultConfig
    /\ last = [op |-> "init"]

\* one caller
NextLimiter == Tick \/ LimiterStep(1)
SpecLimiter == InitLimiter /\ [][NextLimiter]_vars
SpecLimiterFair == SpecLimiter /\ WF_vars(Tick) /\ WF_vars(LimiterStep(1))

\* several threads sharing one limiter, no lock (the class takes none)
NextThreads == Tick \/ \E t \in Threads : LimiterStep(t)
SpecThreads == InitLimiter /\ [][NextThreads]_vars

\* the cache used directly, by one caller
InitCache ==
    /\ clock = 0
    /\ max_rps = 1
    /\ InitLimiterState
    /\ InitCacheState
    /\ InitDownloadState
    /\ InitRegistryState
    /\ flow = NewFlow
    /\ DefaultConfig
    /\ last = [op |-> "init"]

NextCache ==
    \/ Tick
    \/ \E k \in UsedKeys : CacheGetOp(k)
    \/ \E k \in UsedKeys, v \in Values, ttl \in 0..MaxTtl, o \in StorageOutcomes :
          CacheSetOp(k, v, ttl, o)
SpecCache == InitCache /\ [][NextCache]_vars

\* SECHttpClient.__init__, lines 114-131, for a ceiling > 0
Init ==
    /\ clock = 0
    /\ max_rps \in 1..MaxCeiling
    /\ cache_ttl = MaxTtl
    /\ enable_cache \in BOOLEAN
    /\ InitLimiterState
    /\ InitCacheState
    /\ InitDownloadState
    /\ InitRegistryState
    /\ flow = NewFlow
    /\ last = [op |-> "init"]

Next ==
    \/ Tick
    \/ \E r \in Requests, use_cache \in BOOLEAN :
          HttpGet(r[1], NoHeaders, r[2], use_cache, Scenarios)
Spec == Init /\ [][Next]_vars

\* the client asked for any request, the origin answering 200 with a JSON body
InitKey ==
    /\ clock = 0
    /\ max_rps = MaxCeiling
    /\ InitLimiterState
    /\ InitCacheState
    /\ InitDownloadState
    /\ InitRegistryState
    /\ flow = NewFlow
    /\ DefaultConfig
    /\ last = [op |-> "init"]

NextKey ==
    \/ Tick
    \/ \E r \in AllRequests :
          HttpGet(r[1], NoHeaders, r[2], TRUE, {Scenario(0, 200, "\"data\"")})
SpecKey == InitKey /\ [][NextKey]_vars

\* the client called with a headers argument
NextHeaders ==
    \/ Tick
    \/ \E r \in Requests, h \in HeaderInputs, use_cache \in BOOLEAN :
          HttpGet(r[1], h, r[2], use_cache,
                  {Scenario(0, 200, "\"data\""), Scenario(0, 404, "<html>")})
SpecHeaders == InitKey /\ [][NextHeaders]_vars

\* the cache and the client over cache files that something else has damaged
NextCorrupt ==
    \/ Tick
    \/ \E k \in UsedKeys, c \in Malformed : Corrupt(k, c)
    \/ \E k \in UsedKeys : CacheGetOp(k)
    \/ \E r \in Requests :
          \/ HttpGet(r[1], NoHeaders, r[2], TRUE, {Scenario(0, 200, "\"data\"")})
          \/ GetLookupRaises(r[1], NoHeaders, r[2], TRUE)
SpecCorrupt == InitCache /\ [][NextCorrupt]_vars

\* download: the destinations may hold a file from before
InitDownload ==
    /\ clock = 0
    /\ max_rps \in 1..MaxCeiling
    /\ InitLimiterState
    /\ InitCacheState
    /\ DefaultConfig
    /\ dest \in [DestPaths -> {Absent, OldFile}]
    /\ InitRegistryState
    /\ flow = NewFlow
    /\ last = [op |-> "init"]

NextDownload ==
    \/ Tick
    \/ \E url \in Urls, d \in DestPaths, use_cache \in BOOLEAN :
          Download(url, d, use_cache)
SpecDownload == InitDownload /\ [][NextDownload]_vars

\* the registry, called by one thread
NextRegistry ==
    \/ Tick
    \/ GetDefaultClient
    \/ \E c \in CustomClients \cup {constructed[i] : i \in DOMAIN constructed} :
          SetDefaultClient(c)
SpecRegistry == InitCache /\ [][NextRegistry]_vars

\* concurrent writers of the cache, and a reader once they have finished
NextCacheWriters ==
    \/ \E t \in Threads : SetStep(t, UsedKeys)
    \/ \E k \in UsedKeys : QuietGet(k)
SpecCacheWriters == InitCache /\ [][NextCacheWriters]_vars

\* concurrent readers and writers of the cache
NextCacheThreads ==
    \/ Tick
    \/ \E t \in Threads : SetStep(t, {CacheKey("u1", NoParams)})
    \/ \E t \in Threads : GetStep(t, {CacheKey("u1", NoParams)})
SpecCacheThreads == InitCache /\ [][NextCacheThreads]_vars

\* the registry called by several threads
NextRegistryThreads ==
    \/ \E t \in Threads : RegStep(t)
    \/ \E c \in CustomClients : SetDefaultClient(c)
SpecRegistryThreads == InitCache /\ [][NextRegistryThreads]_vars

\* one run of the flow, started by kickoff
NextFlow ==
    \/ \E inputs \in {NotPassed, "aapl"},
          direct \in {NotPassed, "LAD", "aapl", " msft ", "   ", ""},
          payload \in {NoPayload} \cup {Payload(t) : t \in {None, "aapl", "   ", ""}} :
          Kickoff(inputs, direct, payload)
    \/ \E m \in Methods : Execute(m)
SpecFlow == InitCache /\ [][NextFlow]_vars

\* ---------------------------------------------------------------- claims

\* the number of entries of log inside the trailing window (t - 1s, t]
WindowCount(log, t) ==
    Cardinality({i \in DOMAIN log : log[i] > t - TicksPerSecond /\ log[i] <= t})

\* C1: with one caller, no trailing 1-second window measured at a recorded
\* admission timestamp holds more than max_rps recorded admissions.
C1_WindowBound ==
    \A i \in DOMAIN admitted : WindowCount(admitted, admitted[i]) <= max_rps

\* C2: with several threads, no trailing 1-second window measured at a
\* completion time holds more than max_rps completed admissions.
C2_GlobalWindowBound ==
    \A i \in DOMAIN completed : WindowCount(completed, completed[i]) <= max_rps

\* C3: with one caller, a call of wait_if_needed never raises, appends exactly
\* one timestamp (none before it returns other than its own, one once it has
\* returned), and every call that has started returns.
C3_AdmitReturns ==
    /\ [](pc[1] # "raised")
    /\ [](Len(admitted) = IF pc[1] = "idle" THEN calls ELSE calls - 1)
    /\ ((pc[1] # "idle") ~> (pc[1] = "idle"))

\* a call that had to sleep has returned
C3_Witness ==
    /\ pc[1] = "idle"
    /\ calls >= 2
    /\ Len(admitted) = calls
    /\ wake_at[1] > 0
    /\ admitted[Len(admitted)] >= wake_at[1]

\* C4 (as claimed): a get(k) after a set(k, v, ttl) whose file was written,
\* with no other set of k in between, returns v when the time elapsed since
\* the set is < ttl and None when it is >= ttl.
C4_ExpiryLaw ==
    (last.op = "get" /\ written[last.key].persisted) =>
        last.result = (IF clock < written[last.key].due
                         THEN written[last.key].value ELSE None)

\* C4 (amended): a get(k) after a set(k, v, ttl) whose file was written, with
\* no other set of k in between, returns v when the time elapsed since the
\* set is <= ttl and None when it is > ttl.
C4_ExpiryLawInclusive ==
    (last.op = "get" /\ written[last.key].persisted) =>
        last.result = (IF clock <= written[last.key].due
                         THEN written[last.key].value ELSE None)

\* a get made exactly ttl after the set has returned the value
C4_Witness ==
    /\ last.op = "get"
    /\ written[last.key].persisted
    /\ written[last.key].due > 0
    /\ clock = written[last.key].due
    /\ last.result = written[last.key].value
    /\ last.result # None

\* C5: eviction is lazy and per key. A get(k) at now <= expires_at returns
\* the stored value and leaves the entry; a get(k) at now > expires_at
\* returns None and removes the entry; no get or set of k changes the file
\* of another key.
C5_LazyEviction ==
    [][ /\ last'.op = "get" =>
              LET p == CachePath(last'.key)
                  f == files[p]
              IN  /\ (f.kind = "record" /\ clock <= f.expires_at) =>
                        (last'.result = f.value /\ files'[p] = f)
                  /\ (f.kind = "record" /\ clock > f.expires_at) =>
                        (last'.result = None /\ files'[p] = NoFile)
                  /\ \A q \in Paths \ {p} : files'[q] = files[q]
        /\ last'.op = "set" =>
              \A q \in Paths \ {CachePath(last'.key)} : files'[q] = files[q]
      ]_vars

\* an expired entry has been removed by a get while another key's entry stays
C5_Witness ==
    /\ last.op = "get"
    /\ last.result = None
    /\ written[last.key].persisted
    /\ clock > written[last.key].due
    /\ files[CachePath(last.key)] = NoFile
    /\ \E q \in Paths \ {CachePath(last.key)} : files[q].kind = "record"

Items(p) == IF p.none THEN {} ELSE {p.items[i] : i \in DOMAIN p.items}

\* the request r has an unexpired entry with a payload at time t
FreshFor(r, t) ==
    LET f == files[CachePath(CacheKey(r[1], r[2]))]
    IN  f.kind = "record" /\ t <= f.expires_at /\ f.value # None

\* C7: the cache key does not depend on the order of the query parameters,
\* and None and {} give the same key: a get is a hit, under the same key,
\* whenever a payload is cached for a request with the same url and the same
\* key/value pairs.
C7_KeyOrderIndependent ==
    [][ (last'.op = "http_get" /\ last'.use_cache /\ enable_cache) =>
            \A r \in AllRequests :
                (r[1] = last'.url /\ Items(r[2]) = Items(last'.params)
                    /\ FreshFor(r, clock)) =>
                (last'.hit /\ last'.key = CacheKey(r[1], r[2]))
      ]_vars

\* a get with two parameters was served the entry stored under the other order
C7_Witness ==
    /\ last.op = "http_get"
    /\ last.hit
    /\ Len(last.params.items) = 2
    /\ written[last.key].persisted
    /\ written[last.key].by # last.params
    /\ Items(written[last.key].by) = Items(last.params)

\* C8: a get with use_cache=False leaves every cache file as it was, is never
\* answered from the cache, and makes one limiter admission and at least one
\* network attempt, whether it succeeds or fails.
C8_UseCacheFalseFrame ==
    [][ (last'.op = "http_get" /\ ~last'.use_cache) =>
            /\ files' = files
            /\ written' = written
            /\ ~last'.hit
            /\ calls' = calls + 1
            /\ Len(admitted') = Len(admitted) + 1
            /\ request_times' # <<>>
            /\ request_times'[Len(request_times')] = admitted'[Len(admitted')]
            /\ last'.attempts >= 1
      ]_vars

\* a get with use_cache=False has fetched a JSON body with status 200 while
\* the key has an entry, on a client with caching enabled
C8_Witness ==
    /\ last.op = "http_get"
    /\ ~last.use_cache
    /\ enable_cache
    /\ ~last.raised
    /\ last.status = 200
    /\ IsJson(last.body)
    /\ files[CachePath(last.key)].kind = "record"
    /\ Loads(last.body) # files[CachePath(last.key)].value

\* C9: a get with use_cache=True on a cache-enabled client that finds an
\* unexpired entry for its key returns status 200 with the cached payload as
\* its JSON body, adds no limiter timestamp, sends no request and leaves the
\* cache files unchanged.
C9_FreshEntryIsHit ==
    [][ LET f == files[CachePath(last'.key)] IN
        (last'.op = "http_get" /\ last'.use_cache /\ enable_cache
            /\ f.kind = "record" /\ clock <= f.expires_at) =>
            /\ last'.hit
            /\ last'.status = 200
            /\ IsJson(last'.body) /\ Loads(last'.body) = f.value
            /\ request_times' = request_times
            /\ last'.attempts = 0
            /\ files' = files
      ]_vars

\* C10: once a get has stored the JSON body of a 200 response, every get of
\* the same request with use_cache=True made before the ttl has elapsed
\* returns status 200 from the cache, without an admission or a request.
C10_ServedFromCache ==
    [][ (last'.op = "http_get" /\ last'.use_cache /\ enable_cache
            /\ written[last'.key].persisted /\ clock < written[last'.key].due) =>
            /\ last'.hit
            /\ last'.status = 200
            /\ calls' = calls
            /\ last'.attempts = 0
      ]_vars

\* the position of step e in the trace of a download (0 when it did not happen)
Position(trace, e) ==
    IF \E i \in DOMAIN trace : trace[i] = e
      THEN CHOOSE i \in DOMAIN trace : trace[i] = e ELSE 0

\* C11 (as claimed): download makes no admission and no request, leaves the
\* destination untouched and returns its absolute path exactly when use_cache
\* is set and the destination exists; in every other case it makes exactly
\* one admission, before the request, and on success the destination holds
\* the body and its absolute path is returned.
C11_DownloadAdmissions ==
    [][ (last'.op = "download") =>
          IF last'.use_cache /\ dest[last'.dest].kind # "absent"
            THEN /\ admitted' = admitted
                 /\ request_times' = request_times
                 /\ last'.attempts = 0
                 /\ dest' = dest
                 /\ last'.path = Absolute(last'.dest)
            ELSE /\ Len(admitted') = Len(admitted) + 1
                 /\ last'.attempts >= 1
                 /\ 0 < Position(last'.trace, "admit")
                 /\ Position(last'.trace, "admit") < Position(last'.trace, "request")
                 /\ (last'.error = "none") =>
                       /\ dest'[last'.dest] = Complete(last'.url)
                       /\ last'.path = Absolute(last'.dest)
      ]_vars

\* C11 (amended): as claimed, except that a download whose parent directory
\* cannot be created raises before the limiter is asked: it makes no
\* admission and no request and leaves the destination absent.
C11_DownloadAdmissionsUnlessMkdirFails ==
    [][ (last'.op = "download") =>
          IF last'.use_cache /\ dest[last'.dest].kind # "absent"
            THEN /\ admitted' = admitted
                 /\ request_times' = request_times
                 /\ last'.attempts = 0
                 /\ dest' = dest
                 /\ last'.path = Absolute(last'.dest)
            ELSE IF last'.trace = <<"mkdir">>
            THEN /\ last'.error = "OSError"
                 /\ last'.path = None
                 /\ admitted' = admitted
                 /\ last'.attempts = 0
                 /\ dest' = dest
                 /\ dest[last'.dest].kind = "absent"
            ELSE /\ Len(admitted') = Len(admitted) + 1
                 /\ last'.attempts >= 1
                 /\ 0 < Position(last'.trace, "admit")
                 /\ Position(last'.trace, "admit") < Position(last'.trace, "request")
                 /\ (last'.error = "none") =>
                       /\ dest'[last'.dest] = Complete(last'.url)
                       /\ last'.path = Absolute(last'.dest)
      ]_vars

\* a download with use_cache=False has written its destination after one
\* admission while another destination still holds its old file
C11_Witness ==
    /\ last.op = "download"
    /\ ~last.use_cache
    /\ last.error = "none"
    /\ dest[last.dest] = Complete(last.url)
    /\ Len(admitted) = 1
    /\ \E d \in DestPaths \ {last.dest} : dest[d] = OldFile

\* C12: a get that misses the cache sends at most 3 network attempts: a 200
\* on the third attempt is returned, and after three transient answers the
\* get fails without sending a fourth.
C12_AtMostThreeAttempts ==
    (last.op = "http_get" /\ ~last.hit) =>
        /\ last.attempts <= 3
        /\ (last.attempts = 3 /\ last.status = 200) => ~last.raised

\* C13: a final status that is neither 2xx nor in the retry list makes the
\* get fail with the request-failed error after exactly one attempt.
C13_OtherStatusFails ==
    (last.op = "http_get" /\ last.attempts >= 1
        /\ last.status \notin 200..299 /\ last.status \notin RetryStatuses) =>
        /\ last.error = "Exception: HTTP request failed"
        /\ last.attempts = 1

\* C14: a get whose 2xx response body is not JSON returns the response and
\* writes nothing: the file of its key is left as the lookup left it (as it
\* was, or removed), no set is made, every other file is untouched; and a get
\* whose key has no file goes to the network.
C14_NonJsonNotCached ==
    [][ LET p == CachePath(last'.key) IN
        /\ (last'.op = "http_get" /\ last'.attempts >= 1
               /\ last'.status \in 200..299 /\ last'.body \notin JsonTexts) =>
              /\ ~last'.raised
              /\ ~last'.cache_set
              /\ written' = written
              /\ files'[p] \in {files[p], NoFile}
              /\ \A q \in Paths \ {p} : files'[q] = files[q]
        /\ (last'.op = "http_get" /\ files[p] = NoFile) =>
              (~last'.hit /\ last'.attempts >= 1 /\ calls' = calls + 1)
      ]_vars

\* a cache-enabled get with use_cache=True was answered 200 with an HTML body
\* and its key has no file
C14_Witness ==
    /\ last.op = "http_get"
    /\ last.use_cache /\ enable_cache
    /\ ~last.raised
    /\ last.status = 200
    /\ last.body = "<html>"
    /\ files[CachePath(last.key)] = NoFile

\* C15: a get with use_cache=True on a cache-enabled client that receives a
\* 2xx response with a JSON body calls set, and when the file is written the
\* entry holds the parsed payload and expires at the write time plus
\* cache_ttl.
C15_Caches2xx ==
    [][ LET p == CachePath(last'.key) IN
        (last'.op = "http_get" /\ last'.attempts >= 1 /\ last'.use_cache
            /\ enable_cache /\ last'.status \in 200..299
            /\ last'.body \in JsonTexts) =>
            /\ last'.cache_set
            /\ written'[last'.key].persisted =>
                  files'[p] = Entry(Loads(last'.body), clock' + cache_ttl)
      ]_vars

\* C16: every request a get sends carries a User-Agent header that is
\* present and not empty, whatever headers the caller passes.
C16_UserAgentSent ==
    (last.op = "http_get" /\ last.attempts >= 1) =>
        last.user_agent \notin {"", "absent", "not sent"}

\* C17: a get that does not hit the cache and whose request fails terminally
\* (a 4xx/5xx final status, or the retries exhausted) raises the
\* request-failed error wrapping the cause; it returns no response, calls no
\* set and leaves every cache file as the lookup left it.
C17_FailureSurfaces ==
    [][ LET p == CachePath(last'.key) IN
        (last'.op = "http_get" /\ last'.attempts >= 1 /\ last'.status >= 400) =>
            /\ last'.error = "Exception: HTTP request failed"
            /\ last'.cause \in {"HTTPError", "RetryError"}
            /\ ~last'.hit
            /\ ~last'.cache_set
            /\ written' = written
            /\ files'[p] \in {files[p], NoFile}
            /\ files'[p].kind # "record" \/ files'[p] = files[p]
            /\ \A q \in Paths \ {p} : files'[q] = files[q]
      ]_vars

\* a get with use_cache=True found its entry expired, removed it, and raised
\* the failure of the live request
C17_Witness ==
    /\ last.op = "http_get"
    /\ last.use_cache /\ enable_cache
    /\ last.raised
    /\ written[last.key].persisted
    /\ clock > written[last.key].due
    /\ files[CachePath(last.key)] = NoFile

\* C18: whatever malformed content the file of k holds, SimpleCache.get(k)
\* returns None, removes the file and raises nothing, and a get through the
\* client goes on to the network.
C18_MalformedIsAbsent ==
    [][ LET p == CachePath(last'.key) IN
        /\ (last'.op = "get" /\ files[p] \in Malformed) =>
              /\ last'.result = None
              /\ last'.error = "none"
              /\ files'[p] = NoFile
        /\ (last'.op = "http_get" /\ last'.use_cache /\ enable_cache
               /\ files[p] \in Malformed) =>
              /\ last'.attempts >= 1
              /\ last'.error = "none"
      ]_vars

\* C19: a get that reached SimpleCache.set returns the live 200 response
\* whether the file was written or not; no error of the write reaches the
\* caller.
C19_WriteFailureAbsorbed ==
    (last.op = "http_get" /\ last.cache_set) =>
        /\ ~last.raised
        /\ last.error = "none"
        /\ last.status = 200
        /\ last.body \in JsonTexts

\* a get returned the live response although its cache file was not written
C19_Witness ==
    /\ last.op = "http_get"
    /\ last.cache_set
    /\ ~last.raised
    /\ ~written[last.key].persisted
    /\ files[CachePath(last.key)] \in {NoFile, Garbage}

\* C20: get_default_client constructs at most one client, with the baseline
\* configuration, and only when no default is installed; it returns the
\* installed default, which is the client of the most recent
\* set_default_client or else the one constructed instance; nothing else
\* changes the default.
C20_RegistryDefault ==
    /\ [](Len(constructed) <= 1)
    /\ [](\A i \in DOMAIN constructed :
            /\ constructed[i].max_rps = 10
            /\ constructed[i].timeout = 30
            /\ constructed[i].cache_ttl = 3600
            /\ constructed[i].enable_cache)
    /\ [][ /\ (last'.op = "get_default_client") =>
                /\ last'.result # NoClient
                /\ last'.result = default_client'
                /\ (default_client # NoClient) =>
                      (last'.result = default_client /\ constructed' = constructed)
                /\ (default_client = NoClient) =>
                      (constructed = <<>> /\ constructed' = <<last'.result>>)
           /\ (last'.op = "set_default_client") =>
                (default_client' = last'.client /\ constructed' = constructed)
           /\ (last'.op \notin {"get_default_client", "set_default_client"}) =>
                (default_client' = default_client /\ constructed' = constructed)
         ]_vars

\* a get returned a client installed by set after the lazily constructed
\* default had been handed out
C20_Witness ==
    /\ last.op = "get_default_client"
    /\ last.result \in CustomClients
    /\ Len(constructed) = 1

\* C21: with several threads in get_default_client, possibly interleaved
\* with set_default_client, at most one default client is ever constructed,
\* and a get returns the constructed client or one installed by a set.
C21_OneDefaultConstructed ==
    /\ Len(constructed) <= 1
    /\ (last.op = "get_default_client") =>
          (last.result \in CustomClients \/ last.result = constructed[1])

\* C22: every failure of download, of the network or of the storage, reaches
\* the caller as the download-failed error, and no path is returned.
C22_DownloadFailureWrapped ==
    (last.op = "download" /\ last.error # "none") =>
        /\ last.error = "Exception: Download failed"
        /\ last.path = None

\* C24: every network attempt of a get, retries included, is gated by a
\* limiter admission: a get makes as many admissions as it sends attempts.
C24_AttemptsGated ==
    [][ (last'.op = "http_get") =>
            last'.attempts = Len(admitted') - Len(admitted)
      ]_vars

\* C25: with one caller, wait_if_needed sleeps at most once per call, only
\* when the purged window holds at least max_rps timestamps, for
\* 1.0 - (now - oldest) which is positive and at most one second, and records
\* the time read after the sleep; with ceiling 2 the first two calls do not
\* sleep and the third is recorded at least one second after the first, so
\* its trailing window never holds all three.
C25_WaitOnceAtLimit ==
    /\ [][ /\ (pc[1] # "sleep" /\ pc'[1] = "sleep") =>
                /\ pc[1] = "check"
                /\ Len(request_times) >= max_rps
                /\ ~Stale(request_times, now[1])
                /\ wake_at'[1] - clock = TicksPerSecond - (now[1] - Head(request_times))
                /\ wake_at'[1] - clock > 0
                /\ wake_at'[1] - clock <= TicksPerSecond
           /\ (pc[1] = "sleep" /\ pc'[1] # "sleep") =>
                (pc'[1] = "repurge" /\ now'[1] = clock /\ now'[1] >= wake_at[1])
           /\ (pc[1] = "repurge") => pc'[1] \in {"repurge", "append"}
           /\ (pc[1] = "append" /\ pc'[1] # "append") =>
                (pc'[1] = "idle" /\ admitted' = Append(admitted, now[1]))
         ]_vars
    /\ []((max_rps = 2 /\ calls <= 2) => pc[1] \notin {"sleep", "repurge"})
    /\ []((max_rps = 2 /\ Len(admitted) >= 3) =>
            /\ admitted[3] >= admitted[1] + TicksPerSecond
            /\ WindowCount(SubSeq(admitted, 1, 3), admitted[3]) <= 2)

\* with ceiling 2, three calls were made back-to-back and the third was
\* recorded one second after the first two
C25_Witness ==
    /\ max_rps = 2
    /\ Len(admitted) = 3
    /\ admitted[1] = admitted[2]
    /\ wake_at[1] = admitted[1] + TicksPerSecond
    /\ admitted[3] = wake_at[1]

\* C26: whenever download returns a path, the file at that path holds the
\* complete body of a successful response; a partial file left by a failed
\* download is never returned.
C26_ReturnedFileComplete ==
    (last.op = "download" /\ last.error = "none") =>
        dest[last.dest].kind # "partial"

\* C23: concurrent sets touch only the file of their own key, and once the
\* sets of a key have all finished, a get of that key before expiry returns
\* the complete value of the write that finished last.
C23_LastWriteWins ==
    [][ /\ \A t \in Threads :
              (cache_op'[t] # cache_op[t]) =>
                  \A q \in Paths \ {CachePath(cache_op'[t].key)} : files'[q] = files[q]
        /\ (last'.op = "get" /\ cache_op' = cache_op /\ AllIdle
               /\ written[last'.key].persisted
               /\ clock <= written[last'.key].due) =>
              /\ last'.result = written[last'.key].value
              /\ \A q \in Paths \ {CachePath(last'.key)} : files'[q] = files[q]
      ]_vars

\* C27: with several threads in SimpleCache.get and SimpleCache.set on one
\* key, no get raises: each returns None or the complete value of a set.
C27_ConcurrentGetAbsorbs ==
    (last.op = "get") =>
        /\ last.error = "none"
        /\ last.result \in ThreadValues \cup {None}

\* a run is over: every listener whose trigger is pending has already run
Finished ==
    /\ "initialize_ticker" \in Ran
    /\ \A m \in DOMAIN ListensTo : ListensTo[m] \in flow.triggers => m \in Ran

\* C28: get_financial_metrics and generate_snapshot_summary run only after
\* get_company_info returned "company_found", with state.cik non-empty and
\* state.company_profile set; after any other status the router returns
\* "handle_error", neither step runs and the run ends with snapshot_summary
\* "Error: " + error_message; and a run in which get_financial_metrics ran
\* does not end before generate_snapshot_summary has run.
C28_SummaryFollowsMetrics ==
    LET status == flow.outputs["get_company_info"]
        steps == {"get_financial_metrics", "generate_snapshot_summary"}
    IN  /\ (Ran \cap steps # {}) =>
               /\ status = "company_found"
               /\ flow.state.cik # ""
               /\ flow.state.company_profile # None
        /\ (Finished /\ status \in {"company_not_found", "error"}) =>
               /\ flow.outputs["route_by_company_status"] = "handle_error"
               /\ Ran \cap steps = {}
               /\ flow.state.snapshot_summary = ErrorSummary(flow.state.error_message)
        /\ (Finished /\ "get_financial_metrics" \in Ran) =>
               "generate_snapshot_summary" \in Ran

\* C29: once initialize_ticker has returned "error", no tool call is ever
\* made, the error_message stays "No ticker provided", and the run ends
\* with handle_error having run.
C29_NoLookupWithoutTicker ==
    (flow.outputs["initialize_ticker"] = "error") =>
        /\ flow.tool_calls = 0
        /\ flow.state.error_message = "No ticker provided"
        /\ Finished => "handle_error" \in Ran

\* C30: after initialize_ticker, state.ticker is the upper-cased, stripped
\* direct argument whenever one was passed ("LAD" included), else the
\* upper-cased, stripped ticker of the trigger payload when it has one,
\* else "LAD".
C30_TickerPriority ==
    ("initialize_ticker" \in Ran) =>
        flow.state.ticker =
            IF flow.args.ticker # NotPassed
              THEN Strip(Upper(flow.args.ticker))
              ELSE IF PayloadTicker(flow.args.payload)
                     THEN Strip(Upper(flow.args.payload.ticker))
                     ELSE "LAD"

====
